---- MODULE Spec2Model ----
(***************************************************************************)
(* State-machine model of main.cpp (OpenGL Project Core): the start-up     *)
(* sequence of main, the application loop, the three GLFW callbacks,       *)
(* processInput and the two-pass shadow-mapping renderScene.               *)
(*                                                                         *)
(* Representation:                                                         *)
(*  - angles in degrees are integers (angle, lightAngle change by 1.0f);   *)
(*    yaw and pitch are kept in tenths of a degree, since the mouse        *)
(*    sensitivity is 0.1f and cursor positions are whole pixels;           *)
(*  - matrices and vectors are kept symbolically, in the normal forms the  *)
(*    glm calls of the program build (see the "glm" section);              *)
(*  - the GL context is a record (viewport, bound framebuffer, program in  *)
(*    use, polygon mode, the uniforms of each program) and every GL call   *)
(*    of renderScene is appended to frameLog, the trace of the frame.      *)
(***************************************************************************)
EXTENDS Integers, Sequences, FiniteSets, TLC

VARIABLES
    pc,             \* position of main()
    exitCode,       \* value returned by main ("none" while running)
    myWindow,       \* gps::Window: [created, dims, shouldClose, cursor]
    callbacksSet,   \* setWindowCallbacks has registered the callbacks
    gl,             \* the GL context state
    frameLog,       \* GL commands issued since the last buffer swap
    firstMouse, lastX, lastY, yaw, pitch,
    isFlat,
    model, view, projection, normalMatrix,
    lightDir,
    myCamera,
    pressedKeys,    \* the key codes k with pressedKeys[k] true
    angle, lightAngle,
    shadowMapFBO, depthMapTexture,
    closeRequested, \* history: an Escape press or a window-close event was delivered
    polled,         \* events delivered so far by the current glfwPollEvents
    lastInput,      \* history: [keys, lightBefore] of the last processInput
    modeHist,       \* history: the last two display-mode selections
    obs             \* history: observer of an L-run followed by a J-run

vars == <<pc, exitCode, myWindow, callbacksSet, gl, frameLog, firstMouse, lastX,
          lastY, yaw, pitch, isFlat, model, view, projection, normalMatrix,
          lightDir, myCamera, pressedKeys, angle, lightAngle, shadowMapFBO,
          depthMapTexture, closeRequested, polled, lastInput, modeHist, obs>>

(***************************************************************************)
(* Bounds of the model                                                     *)
(***************************************************************************)
MaxMoves == 1           \* camera steps away from the start, per axis
MaxAngle == 1           \* |angle| of the nanosuit
RoundTripFrames == 180  \* n: frames of L, then of J, in the light round trip
MaxEvents == 2          \* events delivered by one glfwPollEvents

ObsStartRange == 1       \* |lightAngle| at which a round trip may be observed

MaxLightAngle == RoundTripFrames + ObsStartRange

(***************************************************************************)
(* Program constants                                                       *)
(***************************************************************************)
SHADOW_WIDTH == 2048
SHADOW_HEIGHT == 2048
InitWindowWidth == 1024
InitWindowHeight == 768
PitchLimit == 890           \* 89.0f, in tenths of a degree
InitYaw == -900             \* -90.0f
InitLastX == 512
InitLastY == 384
PressedKeysSize == 1024
LightDistance == 10         \* lightDirN * 10.0f
MarkerDistance == 10        \* glm::vec3(0,1,1) * 10.0f

GLFW_KEY_UNKNOWN == -1
GLFW_KEY_SPACE == 32
GLFW_KEY_1 == 49
GLFW_KEY_2 == 50
GLFW_KEY_3 == 51
GLFW_KEY_4 == 52
GLFW_KEY_A == 65
GLFW_KEY_D == 68
GLFW_KEY_E == 69
GLFW_KEY_J == 74
GLFW_KEY_L == 76
GLFW_KEY_M == 77
GLFW_KEY_Q == 81
GLFW_KEY_S == 83
GLFW_KEY_W == 87
GLFW_KEY_ESCAPE == 256
GLFW_KEY_LEFT_SHIFT == 340

KeyActions == {"PRESS", "RELEASE", "REPEAT"}

Programs == {"myBasicShader", "lightShader", "depthMapShader", "skyboxShader"}

(***************************************************************************)
(* glm: symbolic values                                                    *)
(*                                                                         *)
(* A model matrix is R_y(rotY) * T(tr) * S(sc2/2): every model matrix of   *)
(* the program is built by rotate, translate, scale in that order.         *)
(* A vector is len * R_y(rotY) * dir/|dir| with len^2 = len2.              *)
(***************************************************************************)
MatDefault == [t |-> "default"]

Mat4Identity == [t |-> "trs", rotY |-> 0, tr |-> <<0, 0, 0>>, sc2 |-> 2]

\* glm::rotate(m, glm::radians(deg), vec3(0,1,0)), m a pure rotation about Y
Rotate(m, deg) == [m EXCEPT !.rotY = m.rotY + deg]

\* glm::translate(m, v) = m * T(v)
Translate(m, v) ==
    [m EXCEPT !.tr = <<m.tr[1] + (m.sc2 * v[1]) \div 2,
                       m.tr[2] + (m.sc2 * v[2]) \div 2,
                       m.tr[3] + (m.sc2 * v[3]) \div 2>>]

\* glm::scale(m, vec3(k2/2))
Scale(m, k2) == [m EXCEPT !.sc2 = (m.sc2 * k2) \div 2]

Dot(v, w) == v[1] * w[1] + v[2] * w[2] + v[3] * w[3]

RECURSIVE Gcd(_, _)
Gcd(a, b) == IF b = 0 THEN a ELSE Gcd(b, a % b)

Abs(n) == IF n < 0 THEN -n ELSE n

Gcd3(v) == Gcd(Gcd(Abs(v[1]), Abs(v[2])), Abs(v[3]))

\* direction of an integer vector: the vector divided by the gcd of its components
Primitive(v) ==
    IF Gcd3(v) = 0 THEN v
    ELSE <<v[1] \div Gcd3(v), v[2] \div Gcd3(v), v[3] \div Gcd3(v)>>

\* glm::vec3(m * glm::vec4(v, 0.0f)), m a pure rotation about Y
RotateDir(m, v) == [t |-> "vec3", rotY |-> m.rotY, dir |-> Primitive(v), len2 |-> Dot(v, v)]

\* glm::normalize(v)
Normalize(v) == [v EXCEPT !.len2 = 1]

\* v * k
ScaleVec(v, k) == [v EXCEPT !.len2 = v.len2 * k * k]

Vec3(x, y, z) == RotateDir(Mat4Identity, <<x, y, z>>)

LookAt(eye, target, up) == [t |-> "lookAt", eye |-> eye, target |-> target, up |-> up]

Ortho(l, r, b, tp, n, f) == [t |-> "ortho", l |-> l, r |-> r, b |-> b, tp |-> tp, n |-> n, f |-> f]

Mul(a, b) == [t |-> "mul", a |-> a, b |-> b]

\* glm::perspective(glm::radians(fov), (float)w / (float)h, near10/10, far)
Perspective(fov, w, h, near10, far) ==
    [t |-> "perspective", fov |-> fov,
     aspect |-> <<w \div Gcd(w, h), h \div Gcd(w, h)>>,
     near10 |-> near10, far |-> far]

\* glm::mat3(glm::inverseTranspose(v * m))
NormalMatrixOf(v, m) == [t |-> "normal", view |-> v, model |-> m]

(***************************************************************************)
(* The GL context.  A function of the program issues a sequence of GL      *)
(* commands; Run executes them in order on c = [gl |-> context, log |->    *)
(* trace], appending to the trace each command with the context it leaves. *)
(***************************************************************************)
UniformNames == {"model", "view", "projection", "normalMatrix", "lightDir",
                 "lightColor", "pointLightPos", "lightSpaceTrMatrix",
                 "shadowMap", "isFlat", "initAlpha"}

Unset == [t |-> "unset"]

IntVal(n) == [t |-> "int", v |-> n]

NoUniforms == [n \in UniformNames |-> Unset]

\* the context before a window exists
GlInit ==
    [viewport |-> <<0, 0, 0, 0>>, fbo |-> 0, program |-> "none",
     polygonMode |-> "FILL", activeTexture |-> 0,
     tex2D |-> [u \in {0, 2} |-> 0],
     uniforms |-> [p \in Programs |-> NoUniforms]]

Command(op, name, val) == [op |-> op, name |-> name, val |-> val]

GlViewport(x, y, w, h) == Command("viewport", "", [t |-> "rect", rect |-> <<x, y, w, h>>])

GlBindFramebuffer(f) == Command("bindFramebuffer", "", IntVal(f))

GlClear(bits) == Command("clear", bits, Unset)

GlPolygonMode(mode) == Command("polygonMode", mode, Unset)

GlActiveTexture(unit) == Command("activeTexture", "", IntVal(unit))

GlBindTexture(tex) == Command("bindTexture", "", IntVal(tex))

\* gps::Shader::useShaderProgram
UseShaderProgram(p) == Command("useProgram", p, Unset)

\* glUniform*(location of name, ...): sets the uniform of the program in use
GlUniform(name, val) == Command("uniform", name, val)

\* gps::Model3D::Draw(shader): a draw call with the program in use
Draw(object) == Command("draw", object, Unset)

\* a call of a function of main.cpp, recorded in the trace
Called(fn) == Command("call", fn, Unset)

\* the context a command leaves
Effect(g, cmd) ==
    CASE cmd.op = "viewport" -> [g EXCEPT !.viewport = cmd.val.rect]
      [] cmd.op = "bindFramebuffer" -> [g EXCEPT !.fbo = cmd.val.v]
      [] cmd.op = "polygonMode" -> [g EXCEPT !.polygonMode = cmd.name]
      [] cmd.op = "activeTexture" -> [g EXCEPT !.activeTexture = cmd.val.v]
      [] cmd.op = "bindTexture" -> [g EXCEPT !.tex2D[g.activeTexture] = cmd.val.v]
      [] cmd.op = "useProgram" -> [g EXCEPT !.program = cmd.name]
      [] cmd.op = "uniform" ->
            IF g.program \in Programs
            THEN [g EXCEPT !.uniforms[g.program][cmd.name] = cmd.val]
            ELSE g
      [] OTHER -> g

\* one entry of the trace: the command and the context it leaves
Entry(g, cmd) ==
    [op |-> cmd.op, name |-> cmd.name, val |-> cmd.val, program |-> g.program,
     fbo |-> g.fbo, viewport |-> g.viewport, polygonMode |-> g.polygonMode,
     uni |-> IF cmd.op = "draw" /\ g.program \in Programs
             THEN g.uniforms[g.program] ELSE <<>>]

Step(c, cmd) ==
    LET g == Effect(c.gl, cmd)
    IN [gl |-> g, log |-> Append(c.log, Entry(g, cmd))]

\* the commands cmds[lo..hi], executed in order from c: the first half, then
\* the second half from the context l the first half leaves
RECURSIVE RunRange(_, _, _, _)
RunRange(c, cmds, lo, hi) ==
    IF lo > hi THEN c
    ELSE IF lo = hi THEN Step(c, cmds[lo])
    ELSE CHOOSE r \in {RunRange(l, cmds, (lo + hi) \div 2 + 1, hi) :
                         l \in {RunRange(c, cmds, lo, (lo + hi) \div 2)}} : TRUE

Run(c, cmds) == RunRange(c, cmds, 1, Len(cmds))

Ctx == [gl |-> gl, log |-> frameLog]

(***************************************************************************)
(* gps::Camera and gps::Window (collaborators)                             *)
(***************************************************************************)
\* gps::Camera(position (0,0,3), target (0,0,-10), up): steps counts the
\* move() calls along the camera's forward, right and up axes
CameraInit == [steps |-> <<0, 0, 0>>, pitch |-> 0, yaw |-> InitYaw]

MoveAxis ==
    [d \in {"MOVE_FORWARD", "MOVE_BACKWARD", "MOVE_RIGHT", "MOVE_LEFT", "MOVE_UP", "MOVE_DOWN"} |->
        CASE d = "MOVE_FORWARD" -> <<1, 0, 0>>
          [] d = "MOVE_BACKWARD" -> <<-1, 0, 0>>
          [] d = "MOVE_RIGHT" -> <<0, 1, 0>>
          [] d = "MOVE_LEFT" -> <<0, -1, 0>>
          [] d = "MOVE_UP" -> <<0, 0, 1>>
          [] OTHER -> <<0, 0, -1>>]

\* gps::Camera::move(direction, speed)
CameraMove(cam, d) ==
    [cam EXCEPT !.steps = <<cam.steps[1] + MoveAxis[d][1],
                            cam.steps[2] + MoveAxis[d][2],
                            cam.steps[3] + MoveAxis[d][3]>>]

\* gps::Camera::rotate(pitch, yaw)
CameraRotate(cam, p, y) == [cam EXCEPT !.pitch = p, !.yaw = y]

\* gps::Camera::getViewMatrix()
GetViewMatrix(cam) == [t |-> "view", steps |-> cam.steps, pitch |-> cam.pitch, yaw |-> cam.yaw]

\* gps::Window::getWindowDimensions()
GetWindowDimensions(w) == w.dims

(***************************************************************************)
(* Initial state: the globals of main.cpp as constructed                   *)
(***************************************************************************)
NoObservation == [on |-> FALSE, start |-> 0, l |-> 0, j |-> 0]

Init ==
    /\ pc = "initOpenGLWindow"
    /\ exitCode = "none"
    /\ myWindow = [created |-> FALSE, dims |-> <<0, 0>>, shouldClose |-> FALSE,
                   cursor |-> "NORMAL"]
    /\ callbacksSet = FALSE
    /\ gl = GlInit
    /\ frameLog = <<>>
    /\ firstMouse = TRUE
    /\ lastX = InitLastX
    /\ lastY = InitLastY
    /\ yaw = InitYaw
    /\ pitch = 0
    /\ isFlat = 0
    /\ model = MatDefault
    /\ view = MatDefault
    /\ projection = MatDefault
    /\ normalMatrix = MatDefault
    /\ lightDir = Vec3(0, 0, 0)
    /\ myCamera = CameraInit
    /\ pressedKeys = {}
    /\ angle = 0
    /\ lightAngle = 0
    /\ shadowMapFBO = 0
    /\ depthMapTexture = 0
    /\ closeRequested = FALSE
    /\ polled = 0
    /\ lastInput = [keys |-> {}, lightBefore |-> 0, ran |-> FALSE]
    /\ modeHist = <<{}, {}>>
    /\ obs = NoObservation

history == <<closeRequested, lastInput, modeHist, obs>>

globals == <<firstMouse, lastX, lastY, yaw, pitch, isFlat, model, view, projection,
             normalMatrix, lightDir, myCamera, pressedKeys, angle, lightAngle,
             shadowMapFBO, depthMapTexture>>

(***************************************************************************)
(* Callbacks.  Each is the whole handler; the application loop below       *)
(* decides when it runs.                                                   *)
(***************************************************************************)
\* the projection of windowResizeCallback
ResizeProjection(width, height) == Perspective(45, width, height, 1, 20)

\* void windowResizeCallback(GLFWwindow*, int width, int height)
WindowResizeCallback(width, height) ==
    LET c == Run(Ctx, <<GlViewport(0, 0, width, height),
                        UseShaderProgram("myBasicShader"),
                        GlUniform("projection", ResizeProjection(width, height))>>)
    IN /\ projection' = ResizeProjection(width, height)
       /\ gl' = c.gl
       /\ frameLog' = c.log
       /\ UNCHANGED <<firstMouse, lastX, lastY, yaw, pitch, isFlat, model, view,
                      normalMatrix, lightDir, myCamera, pressedKeys, angle,
                      lightAngle, shadowMapFBO, depthMapTexture>>

\* void keyboardCallback(GLFWwindow*, int key, int scancode, int action, int mode)
KeyboardCallback(key, action) ==
    /\ myWindow' =
         [myWindow EXCEPT
            !.shouldClose = IF key = GLFW_KEY_ESCAPE /\ action = "PRESS" THEN TRUE ELSE @,
            !.cursor = IF key = GLFW_KEY_M /\ action = "PRESS"
                       THEN (IF @ = "DISABLED" THEN "NORMAL" ELSE "DISABLED")
                       ELSE @]
    /\ pressedKeys' =
         IF key >= 0 /\ key < PressedKeysSize
         THEN (IF action = "PRESS" THEN pressedKeys \cup {key}
               ELSE IF action = "RELEASE" THEN pressedKeys \ {key}
               ELSE pressedKeys)
         ELSE pressedKeys
    /\ UNCHANGED <<gl, frameLog, firstMouse, lastX, lastY, yaw, pitch, isFlat, model,
                   view, projection, normalMatrix, lightDir, myCamera, angle,
                   lightAngle, shadowMapFBO, depthMapTexture>>

\* a clamp that forgets the lower limit
ClampPitchAbove(p) == IF p > PitchLimit THEN PitchLimit ELSE p

\* the clamp of mouseCallback: if (pitch > 89.0f) pitch = 89.0f; if (pitch < -89.0f) ...
ClampPitch(p) ==
    IF p > PitchLimit THEN PitchLimit
    ELSE IF p < -PitchLimit THEN -PitchLimit
    ELSE p

\* void mouseCallback(GLFWwindow*, double xpos, double ypos)
MouseCallback(xpos, ypos) ==
    IF myWindow.cursor = "NORMAL"
    THEN UNCHANGED <<gl, frameLog, firstMouse, lastX, lastY, yaw, pitch, isFlat, model,
                     view, projection, normalMatrix, lightDir, myCamera, pressedKeys,
                     angle, lightAngle, shadowMapFBO, depthMapTexture>>
    ELSE
      LET xoffset == xpos - (IF firstMouse THEN xpos ELSE lastX)  \* times 0.1f: tenths
          yoffset == (IF firstMouse THEN ypos ELSE lastY) - ypos
          newPitch == ClampPitch(pitch + yoffset)
          cam == CameraRotate(myCamera, newPitch, yaw + xoffset)
          nm == NormalMatrixOf(GetViewMatrix(cam), model)
          c == Run(Ctx, <<UseShaderProgram("myBasicShader"),
                          GlUniform("view", GetViewMatrix(cam)),
                          GlUniform("normalMatrix", nm)>>)
      IN /\ firstMouse' = FALSE
         /\ lastX' = xpos
         /\ lastY' = ypos
         /\ yaw' = yaw + xoffset
         /\ pitch' = newPitch
         /\ myCamera' = cam
         /\ view' = GetViewMatrix(cam)
         /\ normalMatrix' = nm
         /\ gl' = c.gl
         /\ frameLog' = c.log
         /\ UNCHANGED <<isFlat, model, projection, lightDir, pressedKeys, angle,
                        lightAngle, shadowMapFBO, depthMapTexture>>

(***************************************************************************)
(* processInput.  Its four groups of ifs: camera movement, rotation of the *)
(* nanosuit, visualization mode, rotation of the light.                    *)
(***************************************************************************)
\* if (pressedKeys[key]) { myCamera.move(d, cameraSpeed); view = ...; upload; normalMatrix = ... }
\* s = [cam, view, nm, cmds]
MoveKey(s, held, key, d, m) ==
    IF key \notin held THEN s
    ELSE [cam |-> CameraMove(s.cam, d),
          view |-> GetViewMatrix(CameraMove(s.cam, d)),
          nm |-> NormalMatrixOf(GetViewMatrix(CameraMove(s.cam, d)), m),
          cmds |-> s.cmds \o <<UseShaderProgram("myBasicShader"),
                               GlUniform("view", GetViewMatrix(CameraMove(s.cam, d)))>>]

\* the ifs of W, S, A, D, SPACE, LEFT_SHIFT
MoveKeys(held, s0, m) ==
    LET s1 == MoveKey(s0, held, GLFW_KEY_W, "MOVE_FORWARD", m)
        s2 == MoveKey(s1, held, GLFW_KEY_S, "MOVE_BACKWARD", m)
        s3 == MoveKey(s2, held, GLFW_KEY_A, "MOVE_LEFT", m)
        s4 == MoveKey(s3, held, GLFW_KEY_D, "MOVE_RIGHT", m)
        s5 == MoveKey(s4, held, GLFW_KEY_SPACE, "MOVE_UP", m)
    IN MoveKey(s5, held, GLFW_KEY_LEFT_SHIFT, "MOVE_DOWN", m)

\* if (pressedKeys[key]) { angle += delta; model = ...; normalMatrix = ...; }
\* r = [angle, model, nm]
RotateKey(r, held, key, delta, v) ==
    IF key \notin held THEN r
    ELSE [angle |-> r.angle + delta,
          model |-> Rotate(Mat4Identity, r.angle + delta),
          nm |-> NormalMatrixOf(v, Rotate(Mat4Identity, r.angle + delta))]

\* the ifs of Q and E
RotateKeys(held, r0, v) ==
    RotateKey(RotateKey(r0, held, GLFW_KEY_Q, -1, v), held, GLFW_KEY_E, 1, v)

\* if (pressedKeys[key]) { glPolygonMode(GL_FRONT_AND_BACK, mode); isFlat = flat; }
\* d = [isFlat, cmds]
ModeKey(d, held, key, mode, flat) ==
    IF key \notin held THEN d
    ELSE [isFlat |-> flat, cmds |-> Append(d.cmds, GlPolygonMode(mode))]

\* the ifs of 2, 3, 4 without the if of 1
ModeKeysWithoutSmooth(held, d0) ==
    LET d2 == ModeKey(d0, held, GLFW_KEY_2, "LINE", 0)
        d3 == ModeKey(d2, held, GLFW_KEY_3, "POINT", 0)
    IN ModeKey(d3, held, GLFW_KEY_4, "FILL", 1)

\* the ifs of 1, 2, 3, 4
ModeKeysResult(held, d0) ==
    LET d1 == ModeKey(d0, held, GLFW_KEY_1, "FILL", 0)
        d2 == ModeKey(d1, held, GLFW_KEY_2, "LINE", 0)
        d3 == ModeKey(d2, held, GLFW_KEY_3, "POINT", 0)
    IN ModeKey(d3, held, GLFW_KEY_4, "FILL", 1)

\* if (pressedKeys[key]) { lightAngle += delta; }
LightKey(la, held, key, delta) == IF key \notin held THEN la ELSE la + delta

\* the ifs of J and L with L written as an else branch
LightKeysExclusive(held, la) ==
    IF GLFW_KEY_J \in held THEN la - 1 ELSE LightKey(la, held, GLFW_KEY_L, 1)

\* the ifs of J and L
LightKeys(held, la) == LightKey(LightKey(la, held, GLFW_KEY_J, -1), held, GLFW_KEY_L, 1)

\* void processInput()
ProcessInput ==
    LET mv == MoveKeys(pressedKeys,
                       [cam |-> myCamera, view |-> view, nm |-> normalMatrix, cmds |-> <<>>],
                       model)
        rot == RotateKeys(pressedKeys, [angle |-> angle, model |-> model, nm |-> mv.nm], mv.view)
        md == ModeKeysResult(pressedKeys, [isFlat |-> isFlat, cmds |-> mv.cmds])
        c == Run(Ctx, md.cmds)
    IN /\ myCamera' = mv.cam
       /\ view' = mv.view
       /\ gl' = c.gl
       /\ frameLog' = c.log
       /\ normalMatrix' = rot.nm
       /\ angle' = rot.angle
       /\ model' = rot.model
       /\ isFlat' = md.isFlat
       /\ lightAngle' = LightKeys(pressedKeys, lightAngle)
       /\ UNCHANGED <<firstMouse, lastX, lastY, yaw, pitch, projection, lightDir,
                      pressedKeys, shadowMapFBO, depthMapTexture>>

(***************************************************************************)
(* Rendering                                                               *)
(***************************************************************************)
\* glm::rotate(glm::mat4(1.0f), glm::radians(lightAngle), vec3(0,1,0))
LightRotation(la) == Rotate(Mat4Identity, la)

\* glm::vec3(lightRotation * glm::vec4(0.0f, 1.0f, 1.0f, 0.0f))
RotatedLightDir(la) == RotateDir(LightRotation(la), <<0, 1, 1>>)

\* glm::mat4 computeLightSpaceTrMatrix()
ComputeLightSpaceTrMatrix(la) ==
    LET lightDirN == Normalize(RotatedLightDir(la))
        lightPos == ScaleVec(lightDirN, LightDistance)
        lightView == LookAt(lightPos, Vec3(0, 0, 0), Vec3(0, 1, 0))
        lightProjection == Ortho(-10, 10, -10, 10, 1, 50)
    IN Mul(lightProjection, lightView)

\* the model matrix of the nanosuit and of the ground in drawObjects
NanosuitModel(a) == Rotate(Mat4Identity, a)

GroundModel == Scale(Translate(Mat4Identity, <<0, -1, 0>>), 1)

\* the normal matrix sent in the depth pass instead of the color pass
SendNormalMatrixInDepthPass(depthPass, v, m) ==
    IF depthPass THEN <<GlUniform("normalMatrix", NormalMatrixOf(v, m))>> ELSE <<>>

\* if (!depthPass) { normalMatrix = ...; glUniformMatrix3fv(normalMatrix) }
SendNormalMatrix(depthPass, v, m) ==
    IF ~depthPass THEN <<GlUniform("normalMatrix", NormalMatrixOf(v, m))>> ELSE <<>>

\* void drawObjects(gps::Shader shader, bool depthPass): the commands it issues
DrawObjects(shader, depthPass, v, a) ==
    <<UseShaderProgram(shader),
      GlUniform("model", NanosuitModel(a))>>
    \o SendNormalMatrix(depthPass, v, NanosuitModel(a))
    \o <<Draw("nanosuit"),
         GlUniform("model", GroundModel)>>
    \o SendNormalMatrix(depthPass, v, GroundModel)
    \o <<Draw("ground")>>

\* a depth pass that leaves the shadow FBO bound
KeepShadowFBOBound == <<>>

\* glBindFramebuffer(GL_FRAMEBUFFER, 0) after the depth pass
UnbindShadowFBO == <<GlBindFramebuffer(0)>>

\* STEP 1 of renderScene: the depth map (shadow pass)
DepthPass(la, v, a, fbo) ==
    <<UseShaderProgram("depthMapShader"),
      Called("computeLightSpaceTrMatrix"),
      GlUniform("lightSpaceTrMatrix", ComputeLightSpaceTrMatrix(la)),
      GlViewport(0, 0, SHADOW_WIDTH, SHADOW_HEIGHT),
      GlBindFramebuffer(fbo),
      GlClear("DEPTH")>>
    \o DrawObjects("depthMapShader", TRUE, v, a)
    \o UnbindShadowFBO

\* a color pass that keeps the viewport of the depth pass
KeepViewport(dims) == <<>>

\* glViewport(0, 0, window width, window height) that opens STEP 2
ResetViewport(dims) == <<GlViewport(0, 0, dims[1], dims[2])>>

\* a light-space matrix computed again, from another angle
LightSpaceTrMatrixOfNextAngle(la) == ComputeLightSpaceTrMatrix(la + 1)

\* the light-space matrix sent to the main shader: the local of renderScene
MainLightSpaceTrMatrix(la) == ComputeLightSpaceTrMatrix(la)

\* the light direction of initUniforms, not rotated
UnrotatedLightDir(la) == RotatedLightDir(0)

\* the light direction sent to the main shader
SentLightDir(la) == RotatedLightDir(la)

\* STEP 2 of renderScene: the final scene
ColorPass(la, v, a, flat, tex, dims) ==
    ResetViewport(dims)
    \o <<GlClear("COLOR_DEPTH"),
         UseShaderProgram("myBasicShader"),
         GlUniform("isFlat", IntVal(flat)),
         GlUniform("initAlpha", IntVal(0)),
         GlUniform("view", v),
         GlUniform("lightSpaceTrMatrix", MainLightSpaceTrMatrix(la)),
         GlActiveTexture(2),
         GlBindTexture(tex),
         GlUniform("shadowMap", IntVal(2)),
         GlUniform("lightDir", SentLightDir(la))>>
    \o DrawObjects("myBasicShader", FALSE, v, a)

\* the model matrix of the light cube
LightCubeModel(la) ==
    Scale(Translate(LightRotation(la), <<0, MarkerDistance, MarkerDistance>>), 1)

\* DRAW LIGHT CUBE
LightCubePass(la, v, proj) ==
    <<UseShaderProgram("lightShader"),
      GlUniform("view", v),
      GlUniform("projection", proj),
      GlUniform("model", LightCubeModel(la)),
      Draw("lightCube")>>

\* gps::SkyBox::Draw(shader, view, projection)
SkyBoxDraw(v, proj) ==
    <<UseShaderProgram("skyboxShader"),
      GlUniform("view", [t |-> "rotationOf", view |-> v]),
      GlUniform("projection", proj),
      Draw("skybox")>>

\* renderScene with the sky-box drawn before the light cube
SkyBoxBeforeLightCube(la, a, cam, flat, proj, fbo, tex, dims, v0) ==
    DepthPass(la, v0, a, fbo)
    \o ColorPass(la, GetViewMatrix(cam), a, flat, tex, dims)
    \o SkyBoxDraw(GetViewMatrix(cam), proj)
    \o LightCubePass(la, GetViewMatrix(cam), proj)

\* void renderScene(): the commands it issues, in order
RenderSceneCommands(la, a, cam, flat, proj, fbo, tex, dims, v0) ==
    DepthPass(la, v0, a, fbo)
    \o ColorPass(la, GetViewMatrix(cam), a, flat, tex, dims)
    \o LightCubePass(la, GetViewMatrix(cam), proj)
    \o SkyBoxDraw(GetViewMatrix(cam), proj)

RenderScene ==
    LET c == Run(Ctx, RenderSceneCommands(lightAngle, angle, myCamera, isFlat, projection,
                                          shadowMapFBO, depthMapTexture,
                                          GetWindowDimensions(myWindow), view))
    IN /\ gl' = c.gl
       /\ frameLog' = c.log
       /\ model' = LightCubeModel(lightAngle)
       /\ view' = GetViewMatrix(myCamera)
       /\ normalMatrix' = NormalMatrixOf(GetViewMatrix(myCamera), GroundModel)
       /\ UNCHANGED <<firstMouse, lastX, lastY, yaw, pitch, isFlat, projection, lightDir,
                      myCamera, pressedKeys, angle, lightAngle, shadowMapFBO,
                      depthMapTexture>>

(***************************************************************************)
(* Start-up functions                                                      *)
(***************************************************************************)
\* void initOpenGLState()
InitOpenGLState ==
    LET c == Run(Ctx, <<GlViewport(0, 0, GetWindowDimensions(myWindow)[1],
                                   GetWindowDimensions(myWindow)[2])>>)
    IN /\ gl' = c.gl
       /\ frameLog' = c.log
       /\ UNCHANGED globals

\* the names glGenFramebuffers and glGenTextures return in the fresh context
GenName == 1

\* void initFBO()
InitFBOCommands(fboName, texName) ==
    <<GlBindTexture(texName),
      GlBindFramebuffer(fboName),
      GlBindFramebuffer(0)>>

InitFBO ==
    LET c == Run(Ctx, InitFBOCommands(GenName, GenName))
    IN /\ shadowMapFBO' = GenName
       /\ depthMapTexture' = GenName
       /\ gl' = c.gl
       /\ frameLog' = c.log
       /\ UNCHANGED <<firstMouse, lastX, lastY, yaw, pitch, isFlat, model, view,
                      projection, normalMatrix, lightDir, myCamera, pressedKeys, angle,
                      lightAngle>>

\* void initModels()
InitModels ==
    LET c == Run(Ctx, <<UseShaderProgram("skyboxShader")>>)
    IN /\ gl' = c.gl
       /\ frameLog' = c.log
       /\ UNCHANGED globals

\* the projection of initUniforms
InitProjection(dims) == Perspective(45, dims[1], dims[2], 1, 50)

\* void initUniforms()
InitUniforms ==
    LET v == GetViewMatrix(myCamera)
        proj == InitProjection(GetWindowDimensions(myWindow))
        c == Run(Ctx, <<UseShaderProgram("myBasicShader"),
                        GlUniform("view", v),
                        GlUniform("projection", proj),
                        GlUniform("lightDir", Vec3(0, 1, 1)),
                        GlUniform("lightColor", Vec3(1, 1, 1)),
                        GlUniform("pointLightPos", Vec3(0, 2, 0)),
                        GlUniform("isFlat", IntVal(isFlat))>>)
    IN /\ model' = Rotate(Mat4Identity, angle)
       /\ view' = v
       /\ normalMatrix' = NormalMatrixOf(v, Rotate(Mat4Identity, angle))
       /\ projection' = proj
       /\ lightDir' = Vec3(0, 1, 1)
       /\ gl' = c.gl
       /\ frameLog' = c.log
       /\ UNCHANGED <<firstMouse, lastX, lastY, yaw, pitch, isFlat, myCamera,
                      pressedKeys, angle, lightAngle, shadowMapFBO, depthMapTexture>>

(***************************************************************************)
(* main(): start-up                                                        *)
(***************************************************************************)
mainVars == <<exitCode, myWindow, callbacksSet, polled>>

\* initOpenGLWindow(): myWindow.Create(1024, 768, ...) succeeds
InitOpenGLWindow ==
    /\ pc = "initOpenGLWindow"
    /\ pc' = "initOpenGLState"
    /\ myWindow' = [myWindow EXCEPT !.created = TRUE,
                                    !.dims = <<InitWindowWidth, InitWindowHeight>>]
    /\ gl' = [gl EXCEPT !.viewport = <<0, 0, InitWindowWidth, InitWindowHeight>>]
    /\ UNCHANGED <<exitCode, callbacksSet, polled, frameLog, globals, history>>

\* initOpenGLWindow() throws: main returns EXIT_FAILURE
InitOpenGLWindowFails ==
    /\ pc = "initOpenGLWindow"
    /\ pc' = "done"
    /\ exitCode' = "EXIT_FAILURE"
    /\ UNCHANGED <<myWindow, callbacksSet, polled, gl, frameLog, globals, history>>

MainInitOpenGLState ==
    /\ pc = "initOpenGLState"
    /\ pc' = "initFBO"
    /\ InitOpenGLState
    /\ UNCHANGED <<mainVars, history>>

MainInitFBO ==
    /\ pc = "initFBO"
    /\ pc' = "initModels"
    /\ InitFBO
    /\ UNCHANGED <<mainVars, history>>

\* initModels(); initShaders();
MainInitModels ==
    /\ pc = "initModels"
    /\ pc' = "initUniforms"
    /\ InitModels
    /\ UNCHANGED <<mainVars, history>>

\* initUniforms(); initSkyBox();
MainInitUniforms ==
    /\ pc = "initUniforms"
    /\ pc' = "setWindowCallbacks"
    /\ InitUniforms
    /\ UNCHANGED <<mainVars, history>>

\* setWindowCallbacks(); glCheckError();
SetWindowCallbacks ==
    /\ pc = "setWindowCallbacks"
    /\ pc' = "loop"
    /\ callbacksSet' = TRUE
    /\ myWindow' = [myWindow EXCEPT !.cursor = "DISABLED"]
    /\ UNCHANGED <<exitCode, polled, gl, frameLog, globals, history>>

Startup ==
    \/ InitOpenGLWindow
    \/ InitOpenGLWindowFails
    \/ MainInitOpenGLState
    \/ MainInitFBO
    \/ MainInitModels
    \/ MainInitUniforms
    \/ SetWindowCallbacks

(***************************************************************************)
(* main(): the application loop                                            *)
(***************************************************************************)
\* while (!glfwWindowShouldClose(myWindow.getWindow()))
\* a loop test that ignores the close flag
LoopForever ==
    /\ pc = "loop"
    /\ pc' = "processInput"
    /\ UNCHANGED <<mainVars, gl, frameLog, globals, history>>

\* while (!glfwWindowShouldClose(myWindow.getWindow()))
LoopTest ==
    /\ pc = "loop"
    /\ pc' = IF ~myWindow.shouldClose THEN "processInput" ELSE "cleanup"
    /\ UNCHANGED <<mainVars, gl, frameLog, globals, history>>

ModeKeys == {GLFW_KEY_1, GLFW_KEY_2, GLFW_KEY_3, GLFW_KEY_4}

\* history of the display-mode selections: the mode keys held at a processInput
NextModeHist(held) ==
    LET sel == held \cap ModeKeys
    IN IF sel = {} \/ sel = modeHist[2] THEN modeHist ELSE <<modeHist[2], sel>>

\* the observer of n frames with only L held followed by n frames with only J held
NextObs(held) ==
    LET onlyL == GLFW_KEY_L \in held /\ GLFW_KEY_J \notin held
        onlyJ == GLFW_KEY_J \in held /\ GLFW_KEY_L \notin held
    IN IF ~obs.on THEN obs
       ELSE IF obs.l < RoundTripFrames /\ obs.j = 0 /\ onlyL THEN [obs EXCEPT !.l = @ + 1]
       ELSE IF obs.l = RoundTripFrames /\ obs.j < RoundTripFrames /\ onlyJ
            THEN [obs EXCEPT !.j = @ + 1]
       ELSE NoObservation

\* the values the model lets the unbounded counters of processInput reach
WithinBounds ==
    /\ \A i \in 1..3 : myCamera'.steps[i] \in -MaxMoves..MaxMoves
    /\ angle' \in -MaxAngle..MaxAngle
    /\ lightAngle' \in -MaxLightAngle..MaxLightAngle

\* processInput();
LoopProcessInput ==
    /\ pc = "processInput"
    /\ pc' = "renderScene"
    /\ ProcessInput
    /\ WithinBounds
    /\ lastInput' = [keys |-> pressedKeys, lightBefore |-> lightAngle, ran |-> TRUE]
    /\ modeHist' = NextModeHist(pressedKeys)
    /\ obs' = NextObs(pressedKeys)
    /\ UNCHANGED <<mainVars, closeRequested>>

\* renderScene();
LoopRenderScene ==
    /\ pc = "renderScene"
    /\ pc' = "pollEvents"
    /\ RenderScene
    /\ UNCHANGED <<mainVars, history>>

\* glfwPollEvents() delivers a key event
PollKey(keys) ==
    /\ pc = "pollEvents"
    /\ callbacksSet
    /\ polled < MaxEvents
    /\ \E key \in keys, action \in KeyActions :
          /\ KeyboardCallback(key, action)
          /\ closeRequested' = (closeRequested \/ (key = GLFW_KEY_ESCAPE /\ action = "PRESS"))
    /\ polled' = polled + 1
    /\ UNCHANGED <<pc, exitCode, callbacksSet, lastInput, modeHist, obs>>

\* glfwPollEvents() delivers a cursor-position event
PollCursor(positions) ==
    /\ pc = "pollEvents"
    /\ callbacksSet
    /\ polled < MaxEvents
    /\ \E pos \in positions : MouseCallback(pos[1], pos[2])
    /\ polled' = polled + 1
    /\ UNCHANGED <<pc, exitCode, myWindow, callbacksSet, history>>

\* glfwPollEvents() delivers a window-size event: the window has its new size
PollResize(sizes) ==
    /\ pc = "pollEvents"
    /\ callbacksSet
    /\ polled < MaxEvents
    /\ \E size \in sizes :
          /\ myWindow' = [myWindow EXCEPT !.dims = size]
          /\ WindowResizeCallback(size[1], size[2])
    /\ polled' = polled + 1
    /\ UNCHANGED <<pc, exitCode, callbacksSet, history>>

\* glfwPollEvents() handles the close button: GLFW sets the close flag
PollClose ==
    /\ pc = "pollEvents"
    /\ polled < MaxEvents
    /\ myWindow' = [myWindow EXCEPT !.shouldClose = TRUE]
    /\ closeRequested' = TRUE
    /\ polled' = polled + 1
    /\ UNCHANGED <<pc, exitCode, callbacksSet, gl, frameLog, globals, lastInput, modeHist, obs>>

\* glfwPollEvents() returns
PollEventsReturn ==
    /\ pc = "pollEvents"
    /\ pc' = "swapBuffers"
    /\ polled' = 0
    /\ UNCHANGED <<exitCode, myWindow, callbacksSet, gl, frameLog, globals, history>>

\* glfwSwapBuffers(): the frame is presented; its trace is complete
SwapBuffers ==
    /\ pc = "swapBuffers"
    /\ pc' = "glCheckError"
    /\ frameLog' = <<>>
    /\ UNCHANGED <<mainVars, gl, globals, history>>

\* glCheckError(); at the end of the loop body
LoopCheckError ==
    /\ pc = "glCheckError"
    /\ pc' = "loop"
    /\ UNCHANGED <<mainVars, gl, frameLog, globals, history>>

\* cleanup(): myWindow.Delete()
Cleanup ==
    /\ pc = "cleanup"
    /\ pc' = "return"
    /\ myWindow' = [myWindow EXCEPT !.created = FALSE]
    /\ UNCHANGED <<exitCode, callbacksSet, polled, gl, frameLog, globals, history>>

\* return EXIT_SUCCESS;
MainReturn ==
    /\ pc = "return"
    /\ pc' = "done"
    /\ exitCode' = "EXIT_SUCCESS"
    /\ UNCHANGED <<myWindow, callbacksSet, polled, gl, frameLog, globals, history>>

Loop ==
    \/ LoopTest
    \/ LoopProcessInput
    \/ LoopRenderScene
    \/ PollEventsReturn
    \/ SwapBuffers
    \/ LoopCheckError
    \/ Cleanup
    \/ MainReturn

(***************************************************************************)
(* Specifications: the program under five input environments               *)
(***************************************************************************)
\* general: camera, nanosuit rotation, Escape, mouse, resize, close button
MainKeys == {GLFW_KEY_ESCAPE, GLFW_KEY_W, GLFW_KEY_Q}

MainCursor == {<<512, 384>>, <<600, 300>>}

MainSizes == {<<800, 600>>, <<SHADOW_WIDTH, SHADOW_HEIGHT>>}

Next ==
    \/ Startup
    \/ Loop
    \/ PollKey(MainKeys)
    \/ PollCursor(MainCursor)
    \/ PollResize(MainSizes)
    \/ PollClose

Spec == Init /\ [][Next]_vars

\* the steps of main that end an iteration and leave the loop: none of them blocks
EndOfIteration ==
    \/ PollEventsReturn
    \/ SwapBuffers
    \/ LoopCheckError
    \/ LoopTest
    \/ Cleanup
    \/ MainReturn

\* the main thread keeps running: glfwPollEvents returns and each of these steps is taken
FairSpec == Spec /\ WF_vars(EndOfIteration)

\* the light: J and L, and the observer of round trips
LightEnvKeys == {GLFW_KEY_J, GLFW_KEY_L}

\* the observer starts watching at the beginning of a frame
StartObserving ==
    /\ pc = "processInput"
    /\ ~obs.on
    /\ lightAngle \in -ObsStartRange..ObsStartRange
    /\ obs' = [on |-> TRUE, start |-> lightAngle, l |-> 0, j |-> 0]
    /\ UNCHANGED <<pc, mainVars, gl, frameLog, globals, closeRequested, lastInput, modeHist>>

NextLight ==
    \/ Startup
    \/ Loop
    \/ PollKey(LightEnvKeys)
    \/ PollClose
    \/ StartObserving

SpecLight == Init /\ [][NextLight]_vars

\* the display mode: keys 1 to 4
NextMode ==
    \/ Startup
    \/ Loop
    \/ PollKey(ModeKeys)
    \/ PollClose

SpecMode == Init /\ [][NextMode]_vars

\* the mouse: M (cursor capture) and cursor positions, some far outside the window
MouseEnvKeys == {GLFW_KEY_M, GLFW_KEY_UNKNOWN}

MouseCursor == {<<512, 384>>, <<512, 0>>, <<500, 1000>>, <<512, -20000>>, <<512, 20000>>}

NextMouse ==
    \/ Startup
    \/ Loop
    \/ PollKey(MouseEnvKeys)
    \/ PollClose
    \/ PollCursor(MouseCursor)

SpecMouse == Init /\ [][NextMouse]_vars

\* the window: resizes, one of them to the size the window was created with
ResizeSizes == {<<InitWindowWidth, InitWindowHeight>>, <<800, 600>>}

NextResize ==
    \/ Startup
    \/ Loop
    \/ PollKey({GLFW_KEY_ESCAPE})
    \/ PollResize(ResizeSizes)
    \/ PollClose

SpecResize == Init /\ [][NextResize]_vars

(***************************************************************************)
(* Reading the trace of a frame                                            *)
(***************************************************************************)
IsDraw(e) == e.op = "draw"

FrameDraws == SelectSeq(frameLog, IsDraw)

DrawIndices == {i \in DOMAIN frameLog : frameLog[i].op = "draw"}

\* renderScene has run in this iteration and its frame is not yet presented
Rendered == pc \in {"pollEvents", "swapBuffers"}

\* renderScene has just returned
JustRendered == pc = "pollEvents" /\ polled = 0

LastOf(S) == CHOOSE i \in S : \A j \in S : j <= i

\* the calls of computeLightSpaceTrMatrix in the trace
ComputeCalls ==
    {i \in DOMAIN frameLog :
        frameLog[i].op = "call" /\ frameLog[i].name = "computeLightSpaceTrMatrix"}

\* the uploads of uniform name made by renderScene in this frame
RenderUploads(name) ==
    {i \in DOMAIN frameLog :
        /\ frameLog[i].op = "uniform"
        /\ frameLog[i].name = name
        /\ \E k \in ComputeCalls : k < i}

\* draws of the color pass, of the light marker and of the sky-box
IsSceneDraw(e) == e.op = "draw" /\ e.program # "depthMapShader"

WindowRect == <<0, 0, myWindow.dims[1], myWindow.dims[2]>>

ShadowRect == <<0, 0, SHADOW_WIDTH, SHADOW_HEIGHT>>

(***************************************************************************)
(* C1: in every frame renderScene draws, in this order, nanosuit and       *)
(* ground with the depth shader into the shadow FBO, nanosuit and ground   *)
(* with the main shader, the light cube and the sky-box; the shadow FBO is *)
(* unbound after the last depth draw and before the first color draw;      *)
(* nothing else of the loop draws.                                         *)
(***************************************************************************)
ExpectedDraws ==
    << <<"depthMapShader", "nanosuit">>, <<"depthMapShader", "ground">>,
       <<"myBasicShader", "nanosuit">>, <<"myBasicShader", "ground">>,
       <<"lightShader", "lightCube">>, <<"skyboxShader", "skybox">> >>

C1_StageOrder ==
    IF Rendered
    THEN /\ [i \in 1..Len(FrameDraws) |-> <<FrameDraws[i].program, FrameDraws[i].name>>]
              = ExpectedDraws
         /\ shadowMapFBO # 0
         /\ FrameDraws[1].fbo = shadowMapFBO
         /\ FrameDraws[2].fbo = shadowMapFBO
         /\ \E k \in DOMAIN frameLog :
               /\ frameLog[k].op = "bindFramebuffer"
               /\ frameLog[k].fbo = 0
               /\ \A i \in DrawIndices :
                     IF frameLog[i].program = "depthMapShader" THEN i < k ELSE i > k
         /\ frameLog[LastOf(DrawIndices)].name = "skybox"
    ELSE FrameDraws = <<>>

C1_Witness ==
    /\ Rendered
    /\ Len(FrameDraws) = 6
    /\ angle # 0
    /\ myCamera.steps # <<0, 0, 0>>

(***************************************************************************)
(* C2: in a frame computeLightSpaceTrMatrix is called once, and the        *)
(* lightSpaceTrMatrix uploaded to the depth shader equals the one uploaded *)
(* to the main shader: the matrix of the frame's lightAngle.               *)
(***************************************************************************)
C2_SameLightSpaceMatrix ==
    Rendered =>
        /\ Cardinality(ComputeCalls) = 1
        /\ Cardinality(RenderUploads("lightSpaceTrMatrix")) = 2
        /\ \E i, j \in RenderUploads("lightSpaceTrMatrix") :
              /\ i < j
              /\ frameLog[i].program = "depthMapShader"
              /\ frameLog[j].program = "myBasicShader"
              /\ frameLog[i].val = frameLog[j].val
              /\ frameLog[i].val = ComputeLightSpaceTrMatrix(lightAngle)

C2_Witness ==
    /\ Rendered
    /\ lightAngle = 2
    /\ Cardinality(RenderUploads("lightSpaceTrMatrix")) = 2

(***************************************************************************)
(* C3 (as stated): after renderScene the viewport equals the window's      *)
(* current dimensions, and no draw of the color pass, of the light marker  *)
(* or of the sky-box is issued with the viewport at the shadow-map         *)
(* resolution 2048x2048.  It fails for a window resized to 2048x2048.      *)
(***************************************************************************)
C3_ViewportNeverShadowSized ==
    /\ JustRendered => gl.viewport = WindowRect
    /\ \A i \in DOMAIN frameLog :
          IsSceneDraw(frameLog[i]) => frameLog[i].viewport # ShadowRect

(***************************************************************************)
(* C3 (amended): whenever the loop is between two handlers the viewport    *)
(* equals the window's current dimensions; when renderScene has just       *)
(* returned, every draw of the color pass, of the light marker and of the  *)
(* sky-box was issued with the viewport at the window's dimensions, so at  *)
(* 2048x2048 only if the window itself is 2048x2048; the depth draws were  *)
(* issued at 2048x2048.                                                    *)
(***************************************************************************)
C3_ViewportIsWindow ==
    /\ pc \in {"loop", "processInput", "renderScene", "pollEvents", "swapBuffers",
               "glCheckError"}
          => gl.viewport = WindowRect
    /\ JustRendered =>
          \A i \in DrawIndices :
             IF IsSceneDraw(frameLog[i])
             THEN /\ frameLog[i].viewport = WindowRect
                  /\ frameLog[i].viewport = ShadowRect
                        => myWindow.dims = <<SHADOW_WIDTH, SHADOW_HEIGHT>>
             ELSE frameLog[i].viewport = ShadowRect

C3_Witness ==
    /\ JustRendered
    /\ myWindow.dims = <<800, 600>>
    /\ Len(FrameDraws) = 6
    /\ \E i \in DrawIndices : frameLog[i].viewport = ShadowRect
    /\ \E i \in DrawIndices : frameLog[i].viewport = <<0, 0, 800, 600>>

(***************************************************************************)
(* C4: between two handlers the default framebuffer is bound, from the     *)
(* start and after initFBO; in a frame the shadow FBO is bound only from   *)
(* its binding in the depth pass to the unbinding that follows the last    *)
(* depth draw: only clears, depth-shader commands and the depth draws see  *)
(* it bound; every draw of the color pass, the light marker and the        *)
(* sky-box is issued with framebuffer 0.                                   *)
(***************************************************************************)
C4_ShadowFBOUnbound ==
    /\ gl.fbo = 0
    /\ \A i \in DOMAIN frameLog :
          LET e == frameLog[i]
          IN /\ e.fbo \in {0, shadowMapFBO}
             /\ e.fbo # 0 =>
                   /\ e.op = "bindFramebuffer" \/ e.program = "depthMapShader"
                   /\ \E k \in DOMAIN frameLog :
                         /\ k > i
                         /\ frameLog[k].op = "bindFramebuffer"
                         /\ frameLog[k].fbo = 0
                         /\ \A j \in DrawIndices : j > i /\ j < k =>
                               frameLog[j].program = "depthMapShader"
             /\ IsSceneDraw(e) => e.fbo = 0
             /\ e.op = "draw" /\ e.program = "depthMapShader" =>
                   e.fbo = shadowMapFBO /\ shadowMapFBO # 0

C4_Witness ==
    /\ JustRendered
    /\ gl.fbo = 0
    /\ shadowMapFBO # 0
    /\ \E i \in DrawIndices : frameLog[i].fbo = shadowMapFBO
    /\ \E i \in DrawIndices : frameLog[i].program = "myBasicShader" /\ frameLog[i].fbo = 0

(***************************************************************************)
(* C5 (as stated): the lightDir uploaded to the main shader in a frame is  *)
(* normalize(rotate(lightAngle about Y) * (0,1,1)), the direction          *)
(* computeLightSpaceTrMatrix uses.                                         *)
(***************************************************************************)
C5_LightDirNormalized ==
    Rendered =>
        \A i \in RenderUploads("lightDir") :
            frameLog[i].val = Normalize(RotateDir(Rotate(Mat4Identity, lightAngle), <<0, 1, 1>>))

(***************************************************************************)
(* C5 (amended): the lightDir uploaded to the main shader in a frame is    *)
(* rotate(lightAngle about Y) * (0,1,1), not normalized (squared length    *)
(* 2); it has the direction computeLightSpaceTrMatrix uses: normalized     *)
(* and scaled by the light distance it is the eye of the light view of     *)
(* the light-space matrix uploaded in the same frame.                      *)
(***************************************************************************)
C5_LightDirSameRotation ==
    Rendered =>
        /\ Cardinality(RenderUploads("lightDir")) = 1
        /\ \A i \in RenderUploads("lightDir") :
              /\ frameLog[i].program = "myBasicShader"
              /\ frameLog[i].val = RotateDir(Rotate(Mat4Identity, lightAngle), <<0, 1, 1>>)
              /\ frameLog[i].val.len2 = 2
              /\ \A j \in RenderUploads("lightSpaceTrMatrix") :
                    /\ frameLog[j].val.t = "mul"
                    /\ frameLog[j].val.b.t = "lookAt"
                    /\ frameLog[j].val.b.eye =
                          ScaleVec(Normalize(frameLog[i].val), LightDistance)

C5_Witness ==
    /\ Rendered
    /\ lightAngle = -3
    /\ \E i \in RenderUploads("lightDir") : frameLog[i].val.rotY = -3

(***************************************************************************)
(* C6: the pitch stays within [-89, 89] degrees whatever the vertical      *)
(* mouse offsets are, and the camera is rotated with that pitch.           *)
(***************************************************************************)
C6_PitchClamped ==
    /\ pitch >= -PitchLimit
    /\ pitch <= PitchLimit
    /\ myCamera.pitch = pitch
    /\ myCamera.pitch >= -PitchLimit
    /\ myCamera.pitch <= PitchLimit

C6_Witness ==
    /\ pitch = -PitchLimit
    /\ myCamera.pitch = -PitchLimit
    /\ lastY = 20000
    /\ ~firstMouse

(***************************************************************************)
(* C7: when the last two display-mode selections are Wireframe (key 2)     *)
(* then Smooth (key 1), the polygon mode is FILL and isFlat is 0, as at    *)
(* start-up, and every draw of the frame is issued with polygon mode FILL  *)
(* and, for the main shader, with the isFlat uniform 0.                    *)
(***************************************************************************)
C7_WireframeThenSmooth ==
    modeHist = <<{GLFW_KEY_2}, {GLFW_KEY_1}>> =>
        /\ gl.polygonMode = "FILL"
        /\ gl.polygonMode = GlInit.polygonMode
        /\ isFlat = 0
        /\ \A i \in DrawIndices :
              /\ frameLog[i].polygonMode = "FILL"
              /\ frameLog[i].program = "myBasicShader" =>
                    frameLog[i].uni["isFlat"] = IntVal(0)

C7_Witness ==
    /\ modeHist = <<{GLFW_KEY_2}, {GLFW_KEY_1}>>
    /\ Rendered
    /\ Len(FrameDraws) = 6
    /\ pressedKeys = {}

(***************************************************************************)
(* C8: a frame changes lightAngle by +1 with only L held, by -1 with only  *)
(* J held, and by 0 with both or neither held; after n frames with only L  *)
(* held followed by n frames with only J held, n up to 180, lightAngle     *)
(* has its starting value.                                                 *)
(***************************************************************************)
C8_LightRoundTrip ==
    /\ lastInput.ran =>
          lightAngle - lastInput.lightBefore =
             (IF GLFW_KEY_L \in lastInput.keys THEN 1 ELSE 0)
             - (IF GLFW_KEY_J \in lastInput.keys THEN 1 ELSE 0)
    /\ obs.on => lightAngle = obs.start + obs.l - obs.j
    /\ obs.on /\ obs.l = obs.j => lightAngle = obs.start

C8_Witness ==
    /\ obs.on
    /\ obs.l = RoundTripFrames
    /\ obs.j = RoundTripFrames
    /\ lightAngle = obs.start

(***************************************************************************)
(* C9: the loop is left only at its test and only with the close flag      *)
(* set; once the flag is set no processInput or renderScene starts; the    *)
(* frame in progress is presented and error-checked, then cleanup runs     *)
(* and main returns EXIT_SUCCESS.                                          *)
(***************************************************************************)
C9_Termination ==
    /\ [](pc \in {"cleanup", "return"} \/ (pc = "done" /\ exitCode = "EXIT_SUCCESS")
             => closeRequested /\ myWindow.shouldClose)
    /\ [](closeRequested => myWindow.shouldClose)
    /\ [](myWindow.shouldClose => pc \notin {"processInput", "renderScene"})
    /\ [][pc' = "cleanup" /\ pc # "cleanup" => pc = "loop" /\ myWindow.shouldClose]_vars
    /\ [][pc = "pollEvents" /\ pc' # pc => pc' = "swapBuffers"]_vars
    /\ [][pc = "swapBuffers" /\ pc' # pc => pc' = "glCheckError"]_vars
    /\ [][pc = "glCheckError" /\ pc' # pc => pc' = "loop"]_vars
    /\ (myWindow.shouldClose ~> (pc = "done" /\ exitCode = "EXIT_SUCCESS"))

C9_Witness ==
    /\ pc = "done"
    /\ exitCode = "EXIT_SUCCESS"
    /\ closeRequested
    /\ ~myWindow.created

(***************************************************************************)
(* C10: no normalMatrix is uploaded while the depth shader is in use or    *)
(* the shadow FBO is bound; every draw of the color pass is issued with    *)
(* the normal matrix of the view uploaded by renderScene in that frame and *)
(* of the model matrix of the object drawn, both uploaded before the draw. *)
(***************************************************************************)
ModelOf(object) == IF object = "nanosuit" THEN NanosuitModel(angle) ELSE GroundModel

C10_NormalMatrix ==
    /\ \A i \in DOMAIN frameLog :
          frameLog[i].op = "uniform" /\ frameLog[i].name = "normalMatrix" =>
             frameLog[i].program # "depthMapShader" /\ frameLog[i].fbo = 0
    /\ \A i \in DrawIndices :
          frameLog[i].program = "myBasicShader" =>
             LET e == frameLog[i]
             IN /\ e.uni["normalMatrix"] = NormalMatrixOf(e.uni["view"], e.uni["model"])
                /\ e.uni["model"] = ModelOf(e.name)
                /\ \E v \in RenderUploads("view"), m \in RenderUploads("model"),
                      n \in RenderUploads("normalMatrix") :
                      /\ v < m /\ m < n /\ n < i
                      /\ frameLog[v].program = "myBasicShader"
                      /\ frameLog[m].program = "myBasicShader"
                      /\ frameLog[n].program = "myBasicShader"
                      /\ frameLog[v].val = e.uni["view"]
                      /\ frameLog[m].val = e.uni["model"]
                      /\ frameLog[n].val = e.uni["normalMatrix"]
                      /\ \A j \in DrawIndices : ~(m < j /\ j < i)

C10_Witness ==
    /\ JustRendered
    /\ ~firstMouse
    /\ myWindow.cursor = "DISABLED"
    /\ angle # 0
    /\ myCamera.steps # <<0, 0, 0>>
    /\ \E i \in DrawIndices : frameLog[i].program = "myBasicShader"

(***************************************************************************)
(* C11: in every frame the translation of the model matrix the light cube  *)
(* is drawn with equals the position of the light camera of the            *)
(* light-space matrix uploaded in that frame: same direction and same      *)
(* distance from the origin.  The code places the cube at                  *)
(* rotate(lightAngle) * ((0,1,1) * 10), at distance 10 * sqrt 2, and the   *)
(* light camera at normalize(rotate(lightAngle) * (0,1,1)) * 10, at        *)
(* distance 10.                                                            *)
(***************************************************************************)
\* the translation column of a model matrix R(rotY) * T(tr) * S
TranslationOf(m) == RotateDir(m, m.tr)

C11_MarkerAtLightPosition ==
    Rendered =>
        \A i \in DrawIndices :
            frameLog[i].name = "lightCube" =>
                \A j \in RenderUploads("lightSpaceTrMatrix") :
                    TranslationOf(frameLog[i].uni["model"]) = frameLog[j].val.b.eye

(***************************************************************************)
(* C12: once initUniforms has set the projection, after any resize events  *)
(* the projection, the one uploaded to the main shader and the one the     *)
(* light cube and the sky-box are drawn with have the field of view and    *)
(* the near and far planes of the projection of initUniforms, and with the *)
(* window at the size it was created with the projection is the one of     *)
(* initUniforms.  windowResizeCallback sets the far plane to 20, not 50.   *)
(***************************************************************************)
StartupProjection == InitProjection(<<InitWindowWidth, InitWindowHeight>>)

SameFrustum(p) ==
    /\ p.t = "perspective"
    /\ p.fov = StartupProjection.fov
    /\ p.near10 = StartupProjection.near10
    /\ p.far = StartupProjection.far

C12_ResizeChangesOnlyAspect ==
    projection # MatDefault =>
        /\ SameFrustum(projection)
        /\ SameFrustum(gl.uniforms["myBasicShader"]["projection"])
        /\ \A i \in DrawIndices :
              frameLog[i].program \in {"lightShader", "skyboxShader"} =>
                 SameFrustum(frameLog[i].uni["projection"])
        /\ myWindow.dims = <<InitWindowWidth, InitWindowHeight>> =>
              projection = StartupProjection

====
